---- MODULE Spec2Model ----
(***************************************************************************)
(* Step-challenge apps (React Native, react-native-ble-plx): the device    *)
(* session manager.  The repository holds several near-duplicate variants  *)
(* of app/index.tsx; the variable `variant` fixes which one runs, and the  *)
(* feature predicates below say where their code differs.                  *)
(*                                                                         *)
(* Conventions.                                                            *)
(*  - A React handler (button press, BLE callback, timer callback, the     *)
(*    continuation after one `await`) is one action; state updates of one  *)
(*    handler are batched, and the auto-save effect that the re-render     *)
(*    triggers is part of the action.                                      *)
(*  - AsyncStorage is a serial store: an operation takes effect when it is *)
(*    issued; the continuation after its `await` is a later action.        *)
(*  - Transport: a connection is owned by the connectToDevice call that    *)
(*    opened it.  A read resolves with a value only while that connection  *)
(*    is up; the disconnect event of a peripheral is delivered after the   *)
(*    link went down and before a later connect to it resolves.            *)
(*  - The step interval starts a poll body on every tick; the awaits of    *)
(*    bodies in flight settle in any order.                                *)
(*  - JS `undefined` is Undef, a thrown RangeError is Threw.               *)
(*  - distance (km, 2 decimals) is kept in hundredths of a km.             *)
(***************************************************************************)
EXTENDS Integers, Sequences, FiniteSets, TLC

(* ------------------------------ bounds -------------------------------- *)
\* connectToDevice calls in one run
MaxSessions == 3
\* named peripherals in radio range (peripheral 0 advertises no name)
NumPeripherals == 2
\* step polls of one session in flight at the same time
MaxPolls == 1
\* step polls of one session in flight at the same time in the overlap
\* specification
OverlapPolls == 2
\* step readings delivered in one run of the overlap specification
OverlapSamples == 2
\* scans started in one run
MaxScans == 1
\* phone step fetches started in one run
MaxFetches == 2
\* scans started in the scanning-and-connecting specification
ConnectScans == 2
\* connectToDevice calls in one run of the session specification
SessionConnects == 2
\* heart-rate notifications / step readings delivered in one run of the
\* session specification
SessionSamples == 1
\* heart-rate notifications / step readings delivered in one run of the
\* frame specification
FrameSamples == 2
\* loadData invocations (app activations) in one run
MaxActivations == 2
\* calendar days the run spans after the first
MaxDays == 1
\* whole weeks the run can skip after those days
MaxWeeks == 1
\* relaunches of the app in one run
MaxRelaunches == 1
\* heart-rate notifications delivered in one run of the window specification
WindowSamples == 11
\* heart-rate callbacks / step readings in one run of the stream specification
StreamSamples == 2

(* ------------------------------ variants ------------------------------ *)
WR  == "weeklyReset"       \* stepchall- LT - weekly reset
AWT == "addWeeklyTotal"    \* stepchall - LT - add weekly total
P2  == "part002"           \* unnamed/part_002
CC  == "crashChanges"      \* stepchall - LT- crash changes
PDW == "pairDoneWorking"   \* stepchallengeapp pair done WORKING
SC  == "sensorCorrect"     \* stepchallengeapp pair done sensor correct
P0  == "part000"           \* unnamed/part_000
P1  == "part001"           \* unnamed/part_001

\* the variants driven by a Scan button and a device list
Variants == {WR, AWT, P2, CC, PDW, SC, P0}
\* the variant that scans and connects by itself
AutoVariants == {P1}

\* the step count is polled on a 10 s interval (else: notifications or none)
HasPoll(v) == v \in {WR, AWT, P2, CC, PDW}
\* the poll body starts with `if (!deviceRef.current) return`
PollChecksRef(v) == v \in {WR, AWT, P2}
\* the poll body awaits deviceRef.current.isConnected()
PollChecksConnected(v) == v = WR
\* the poll falls back to ALT_STEP_SERVICE when the primary read failed
PollHasAlt(v) == v \in {WR, AWT, P2}
\* onDisconnected calls hrSubscription.remove()
RemovesHrSub(v) == v = WR
\* onDisconnected is registered at all
HasDisconnectHandler(v) == v \notin {P0, P1}
\* the variant keeps dailyRecords / weeklyStats / hrFluctuations / a blob
HasDaily(v) == v \in {WR, AWT, P2, CC}
HasWeekly(v) == v \in {WR, AWT}
HasFluct(v) == v \in {WR, AWT}
HasStore(v) == v \in {WR, AWT, P2}
\* no variant polls the phone for steps
NoPhoneSteps(v) == FALSE
\* the variant polls Google Fit for the phone step count on an interval
HasPhoneSteps(v) == v # SC
\* the fetch goes on only when Google Fit reports the authorization
FitNeedsAuth(v) == v \notin {P0, P1}
\* the fetch sums the first sample set (else: the estimated-steps one)
FitTakesFirst(v) == v \in {P0, P1}
\* resetBluetooth exists
HasReset(v) == v \in {WR, AWT, P2, CC, SC}
\* the connectedDevice state exists (it gates the device list and Scan button)
HasConnectedDevice(v) == v \notin {P0, P1}
\* connectToDevice starts with manager.stopDeviceScan() and clears devices
ConnectStopsScan(v) == v \in {SC, P0}
\* the band's step count arrives as a notification (second monitor)
HasStepMonitor(v) == v = SC
\* startScan awaits requestPermissions() first
ScanAwaitsPermission(v) == v = WR
\* the scan callback keeps only peripherals with a name
ScanNeedsName(v) == v # P0
\* no Scan button and no device list: the scan starts when Bluetooth is on,
\* and its callback connects to the first heart-rate peripheral
AutoConnects(v) == v = P1

(* ------------------------------ values -------------------------------- *)
Undef == -1
Threw == -2
NoDevice == 0
NoDate == -1
\* BleErrorCode.DeviceDisconnected
DeviceDisconnected == 201
\* BleErrorCode.UnknownError, standing for every code but DeviceDisconnected
UnknownError == 0

Sessions == 1..MaxSessions
Peripherals == 0..NumPeripherals
HasName(p) == p > 0
\* peripheral p advertises the heart-rate service (serviceUUIDs has 180d)
AdvertisesHr(p) == p < 2
Activations == 1..MaxActivations

ZeroDaily == [steps |-> 0, avgHr |-> 0, calories |-> 0, distance |-> 0]
ZeroWeekly == [steps |-> 0, calories |-> 0, distance |-> 0]
InitHistory(v) == IF v \in {P0, P1} THEN <<60, 60, 60, 60, 60>> ELSE <<0, 0, 0, 0, 0>>
InitStatus(v) == IF v = P1 THEN "Initializing" ELSE "Ready"

(* --------------------------- Buffer reads ------------------------------ *)
\* data[i] of a Node Buffer: undefined past the end
At(data, i) == IF i < Len(data) THEN data[i + 1] ELSE Undef

\* Buffer.readUInt16LE(offset): RangeError when offset + 2 > length
readUInt16LE(data, offset) ==
    IF offset + 2 > Len(data) THEN Threw
    ELSE data[offset + 1] + 256 * data[offset + 2]

\* Buffer.readUInt32LE(offset): RangeError when offset + 4 > length
readUInt32LE(data, offset) ==
    IF offset + 4 > Len(data) THEN Threw
    ELSE data[offset + 1] + 256 * data[offset + 2]
         + 65536 * data[offset + 3] + 16777216 * data[offset + 4]

\* x & 0x00FFFFFF for an unsigned 32-bit x
Mask24(x) == x % 16777216

\* flags & 0x01 (undefined & 1 is 0)
Bit0(flags) == IF flags = Undef THEN 0 ELSE flags % 2

(* --------------------------- Frame Decoder ----------------------------- *)
\* the bpm expression of the heart-rate monitor callback
decodeHeartRate(v, data) ==
    IF v \in {WR, AWT, P2}
    THEN IF Len(data) >= 2
         THEN (IF At(data, 0) = 22 THEN readUInt16LE(data, 1) ELSE At(data, 1))
         ELSE At(data, 1)
    ELSE IF v = CC
    THEN IF At(data, 0) = 22
         THEN (IF Len(data) > 2 THEN readUInt16LE(data, 1) ELSE At(data, 1))
         ELSE At(data, 1)
    ELSE IF v = PDW
    THEN IF At(data, 0) = 22 THEN readUInt16LE(data, 1) ELSE At(data, 1)
    ELSE IF Bit0(At(data, 0)) = 1 THEN readUInt16LE(data, 1) ELSE At(data, 1)

\* the caller's sanity filter on a decoded bpm
acceptHeartRate(v, bpm) ==
    IF v \in {WR, AWT, P2} THEN bpm > 30 /\ bpm < 220
    ELSE IF v = CC THEN bpm # Undef /\ bpm # 0
    ELSE IF v = SC THEN bpm > 0
    ELSE TRUE

\* the heart-rate callback body sits in try/catch
HrHasTry(v) == v \in {WR, AWT, P2, CC}

\* the count expression of the step poll (step notification in SC);
\* Undef: the length guard skipped the frame
decodeStepCount(v, data) ==
    IF v \in {WR, AWT, P2}
    THEN IF Len(data) >= 4
         THEN (IF readUInt32LE(data, 1) = Threw THEN Threw
               ELSE Mask24(readUInt32LE(data, 1)))
         ELSE 0
    ELSE IF v = CC
    THEN IF Len(data) >= 4
         THEN (IF readUInt32LE(data, 1) = Threw THEN Threw
               ELSE Mask24(readUInt32LE(data, 1)))
         ELSE Undef
    ELSE IF v = PDW
    THEN IF readUInt32LE(data, 1) = Threw THEN Threw
         ELSE Mask24(readUInt32LE(data, 1))
    ELSE readUInt32LE(data, 1)

\* the caller's `if (count > 0)`
acceptStepCount(v, count) ==
    IF v \in {WR, AWT, P2} THEN count > 0 ELSE count # Undef

\* the step decode sits in try/catch
StepHasTry(v) == v # SC

(* ------------------------- Telemetry Aggregator ------------------------ *)
\* prev.slice(0): a window that never evicts
SliceNone(seq, n) == seq

\* prev.slice(-n)
SliceLast(seq, n) ==
    IF Len(seq) <= n THEN seq ELSE SubSeq(seq, Len(seq) - n + 1, Len(seq))

\* Math.floor(count * 0.045); crash-changes uses 0.04
Calories(v, count) == IF v = CC THEN (count * 4) \div 100 ELSE (count * 45) \div 1000

\* parseFloat(((count * 0.762) / 1000).toFixed(2)), in hundredths of a km;
\* exact for every count but the odd multiples of 2500, whose third decimal is
\* a 5 and whose double decides the rounding: the step frames avoid them
Distance(count) == (count * 762 + 5000) \div 10000

\* prev => ({ ...prev, steps: prev.steps + count, ... }): a record that adds
\* the reading to the count
StepRecordAdding(v, prev, count) ==
    [prev EXCEPT !.steps = prev.steps + count,
                 !.distance = Distance(prev.steps + count),
                 !.calories = Calories(v, prev.steps + count)]

\* { steps: count, avgHr: 0, distance: dist, calories: cal }: a record built
\* from the reading alone
StepRecordAlone(v, prev, count) ==
    [steps |-> count, avgHr |-> 0,
     calories |-> Calories(v, count), distance |-> Distance(count)]

\* prev => ({ ...prev, steps: count, distance: dist, calories: cal })
StepRecord(v, prev, count) ==
    [prev EXCEPT !.steps = count,
                 !.distance = Distance(count),
                 !.calories = Calories(v, count)]

\* updateWeeklyStats(currentSteps)
WeeklyOf(v, currentSteps) ==
    LET totalSteps == IF v = WR THEN currentSteps * 7 ELSE currentSteps
    IN  [steps |-> totalSteps,
         calories |-> (totalSteps * 45) \div 1000,
         distance |-> Distance(totalSteps)]

(* ------------------------------- state --------------------------------- *)
VARIABLES
    variant,          \* which app/index.tsx runs
    today,            \* calendar day number; day % 7 = 1 is a Monday
    launches,         \* relaunches of the app so far
    status, isScanning, devices, connectedDevice, deviceRef,
    bandSteps, heartRate, hrHistory, hrFluctuations, dailyRecords, weeklyStats,
    scanOn,           \* the transport is scanning (manager.startDeviceScan)
    scanTimers,       \* armed scan timeouts (setTimeout, never cleared)
    scansStarted,     \* startScan presses so far
    permPending,      \* startScan calls awaiting requestPermissions()
    sess,             \* one record per connectToDevice call
    nSess,            \* connectToDevice calls so far
    polls,            \* step poll bodies in flight, per session and await,
                      \* and the endpoint whose read resolved first
    overtaken,        \* of these, the bodies started before the body whose
                      \* reading was applied last
    pendingDisc,      \* peripherals whose disconnect event is queued
    resetPending,     \* resetBluetooth calls awaiting cancelConnection()
    blob,             \* AsyncStorage[STORAGE_KEY]
    resetMarker,      \* AsyncStorage[RESET_KEY]: day of the last weekly reset
    act,              \* one record per loadData invocation
    resetLog,         \* "Monday detected" log lines, per day
    uncaught,         \* an exception escaped a callback
    hrEvt,            \* locals of the last heart-rate callback
    stepEvt,          \* locals of the last step decode, and bandSteps before it
    nHr, nStep,       \* notifications / step readings delivered so far
    googleSteps,      \* the phone step count (googleSteps / steps)
    fitPending,       \* phone step fetches in flight, per await
    fitEvt,           \* the last answer of getDailyStepCountSamples applied
    nFit              \* phone step fetches started so far

uiVars == <<status, isScanning, devices, connectedDevice, deviceRef>>
teleVars == <<bandSteps, heartRate, hrHistory, hrFluctuations, dailyRecords, weeklyStats>>
scanVars == <<scanOn, scanTimers, scansStarted, permPending>>
bleVars == <<sess, nSess, polls, pendingDisc, resetPending>>
storeVars == <<blob, resetMarker>>
actVars == <<act, resetLog>>
obsVars == <<uncaught, hrEvt, stepEvt, nHr, nStep>>
envVars == <<variant, today, launches>>
fitVars == <<googleSteps, fitPending, fitEvt, nFit>>
ordVars == <<overtaken>>
vars == <<envVars, uiVars, teleVars, scanVars, bleVars, storeVars, actVars, obsVars, fitVars, ordVars>>

NoSession == [dev |-> 0, pc |-> "none", up |-> FALSE, interval |-> FALSE,
              hrSub |-> FALSE, stepSub |-> FALSE, handler |-> FALSE]
NoPolls == [isConn |-> [d \in Sessions |-> 0], primary |-> 0, alt |-> 0,
            firstOk |-> "none"]
NoneOvertaken == [isConn |-> [d \in Sessions |-> 0], primary |-> 0, alt |-> 0]
\* weeklyThen is not stored: it records weeklyStats at the time of the write
NoBlob == [has |-> FALSE, dailyRecords |-> ZeroDaily, hrHistory |-> <<>>,
           hrFluctuations |-> <<>>, hasWeekly |-> FALSE, weeklyStats |-> ZeroWeekly,
           weeklyThen |-> ZeroWeekly]
NoAct == [pc |-> "idle", today |-> NoDate, marker |-> NoDate, data |-> NoBlob,
          didReset |-> FALSE, readings |-> 0]
NoEvt == [n |-> 0, data |-> <<>>, value |-> Undef, outcome |-> "none"]
NoStepEvt == [n |-> 0, data |-> <<>>, value |-> Undef, outcome |-> "none",
              before |-> 0]
NoFetch == [auth |-> 0, samples |-> 0]
NoFitEvt == [n |-> 0, res |-> <<>>]

\* the last calendar day a run can reach
LastDay == 1 + MaxDays + 7 * MaxWeeks
\* the calendar week of day d: weeks begin on Monday
Week(d) == (d + 6) \div 7

\* the days a run may start on: a Sunday or a Monday
InitDays == {0, 1}
IsMonday(d) == d % 7 = 1

\* the in-memory state after the first render, before any effect has run
FreshMemory ==
    /\ status = InitStatus(variant)
    /\ isScanning = FALSE
    /\ devices = <<>>
    /\ connectedDevice = NoDevice
    /\ deviceRef = NoDevice
    /\ bandSteps = 0
    /\ heartRate = 0
    /\ hrHistory = InitHistory(variant)
    /\ hrFluctuations = <<>>
    /\ dailyRecords = ZeroDaily
    /\ weeklyStats = ZeroWeekly
    /\ scanOn = FALSE
    /\ scanTimers = 0
    /\ permPending = 0
    /\ sess = [s \in Sessions |-> NoSession]
    /\ nSess = 0
    /\ polls = [s \in Sessions |-> NoPolls]
    /\ overtaken = [s \in Sessions |-> NoneOvertaken]
    /\ pendingDisc = {}
    /\ resetPending = 0
    /\ act = [a \in Activations |-> NoAct]
    /\ uncaught = FALSE
    /\ googleSteps = 0
    /\ fitPending = NoFetch

\* a first launch of variant v on day d: nothing is stored yet
InitFor(vs, days) ==
    /\ variant \in vs
    /\ today \in days
    /\ launches = 0
    /\ FreshMemory
    /\ blob = NoBlob
    /\ resetMarker = NoDate
    /\ resetLog = [d \in 0..LastDay |-> 0]
    /\ scansStarted = 0
    /\ hrEvt = NoEvt
    /\ stepEvt = NoStepEvt
    /\ nHr = 0
    /\ nStep = 0
    /\ fitEvt = NoFitEvt
    /\ nFit = 0

Init == InitFor(Variants \cup AutoVariants, InitDays)

(* ----------------------------- persistence ----------------------------- *)
\* JSON.stringify({ dailyRecords, hrHistory, hrFluctuations, weeklyStats })
Snapshot(v, daily, hist, fluct, weekly) ==
    [has |-> TRUE, dailyRecords |-> daily, hrHistory |-> hist,
     hrFluctuations |-> IF HasFluct(v) THEN fluct ELSE <<>>,
     hasWeekly |-> (v = WR),
     weeklyStats |-> IF v = WR THEN weekly ELSE ZeroWeekly,
     weeklyThen |-> IF HasWeekly(v) THEN weekly ELSE ZeroWeekly]

\* the auto-save effect, run by the re-render that follows a handler which
\* set dailyRecords, hrHistory, hrFluctuations or weeklyStats
saveData ==
    blob' = IF HasStore(variant) /\ dailyRecords'.steps > 0
            THEN Snapshot(variant, dailyRecords', hrHistory', hrFluctuations', weeklyStats')
            ELSE blob

(* ------------------------------ transport ------------------------------ *)
IsLinkUp(p) == \E s \in Sessions : sess[s].dev = p /\ sess[s].up

RECURSIVE SumTo(_, _)
SumTo(f, n) == IF n = 0 THEN 0 ELSE f[n] + SumTo(f, n - 1)

InFlight(s) == SumTo(polls[s].isConn, MaxSessions) + polls[s].primary + polls[s].alt

\* the link to peripheral p goes down: the owning connection ends and the
\* disconnect event is queued
LinkDown(p) ==
    /\ sess' = [s \in Sessions |->
                  IF sess[s].dev = p /\ sess[s].up THEN [sess[s] EXCEPT !.up = FALSE]
                  ELSE sess[s]]
    /\ pendingDisc' = IF IsLinkUp(p) THEN pendingDisc \cup {p} ELSE pendingDisc

(* ------------------------------ scanning ------------------------------- *)
\* the Scan button is rendered (no connectedDevice) and not disabled
ScanButtonEnabled ==
    /\ ~AutoConnects(variant)
    /\ IF HasConnectedDevice(variant) THEN connectedDevice = NoDevice
       ELSE deviceRef = NoDevice
    /\ ~isScanning

\* startScan from `setDevices([])` to `setTimeout(...)`
BeginScan ==
    /\ devices' = <<>>
    /\ isScanning' = TRUE
    /\ status' = "Scanning"
    /\ scanOn' = TRUE
    /\ scanTimers' = scanTimers + 1

\* the user presses Scan
startScan ==
    /\ ~uncaught
    /\ ScanButtonEnabled
    /\ scansStarted' = scansStarted + 1
    /\ IF ScanAwaitsPermission(variant)
       THEN /\ permPending' = permPending + 1
            /\ UNCHANGED <<devices, isScanning, status, scanOn, scanTimers>>
       ELSE /\ BeginScan
            /\ UNCHANGED permPending
    /\ UNCHANGED <<connectedDevice, deviceRef>>
    /\ UNCHANGED <<envVars, fitVars, ordVars, teleVars, bleVars, storeVars, actVars, obsVars>>

\* requestPermissions() resolves; `isScanning` is the value the pressed
\* closure captured, FALSE since the button was enabled
permissionResult(granted) ==
    /\ ~uncaught
    /\ permPending > 0
    /\ permPending' = permPending - 1
    /\ IF granted
       THEN BeginScan
       ELSE /\ status' = "Permission Denied"
            /\ UNCHANGED <<devices, isScanning, scanOn, scanTimers>>
    /\ UNCHANGED <<connectedDevice, deviceRef, scansStarted>>
    /\ UNCHANGED <<envVars, fitVars, ordVars, teleVars, bleVars, storeVars, actVars, obsVars>>

\* prev => prev.find(d => d.id === device.id) ? prev : [...prev, device]
AddDevice(prev, p) ==
    IF \E i \in 1..Len(prev) : prev[i] = p THEN prev ELSE Append(prev, p)

\* the scan callback with a device (a repeat of a listed one included)
scanResult(p) ==
    /\ ~uncaught
    /\ scanOn
    /\ ~AutoConnects(variant)
    /\ ScanNeedsName(variant) => HasName(p)
    /\ devices' = AddDevice(devices, p)
    /\ UNCHANGED <<status, isScanning, connectedDevice, deviceRef>>
    /\ UNCHANGED <<envVars, fitVars, ordVars, teleVars, scanVars, bleVars, storeVars, actVars, obsVars>>

\* the scan callback with an error
scanError ==
    /\ ~uncaught
    /\ scanOn
    /\ scanOn' = FALSE
    /\ isScanning' = FALSE
    /\ status' = "Scan Error"
    /\ UNCHANGED <<devices, connectedDevice, deviceRef>>
    /\ UNCHANGED <<scanTimers, scansStarted, permPending>>
    /\ UNCHANGED <<envVars, fitVars, ordVars, teleVars, bleVars, storeVars, actVars, obsVars>>

\* the status the scan timeout sets: part_001 tests deviceRef.current
TimeoutStatus(v, ref, st) ==
    IF AutoConnects(v) THEN (IF ref = NoDevice THEN "No Device Found" ELSE st)
    ELSE "Scan Finished"

\* the setTimeout callback of startScan / scanForHeartRate
scanTimeout ==
    /\ ~uncaught
    /\ scanTimers > 0
    /\ scanTimers' = scanTimers - 1
    /\ scanOn' = FALSE
    /\ isScanning' = FALSE
    /\ status' = TimeoutStatus(variant, deviceRef, status)
    /\ UNCHANGED <<devices, connectedDevice, deviceRef>>
    /\ UNCHANGED <<scansStarted, permPending>>
    /\ UNCHANGED <<envVars, fitVars, ordVars, teleVars, bleVars, storeVars, actVars, obsVars>>

\* part_001: scanForHeartRate, called when Bluetooth is on and again when a
\* connection failed
scanForHeartRate ==
    /\ status' = "Scanning"
    /\ scanOn' = TRUE
    /\ scanTimers' = scanTimers + 1
    /\ scansStarted' = scansStarted + 1

\* part_001: the onStateChange callback of setupBLE; the subscription is
\* removed once the state was PoweredOn, and until then the status reads
\* Initializing or Turn Bluetooth ON
onStateChange(poweredOn) ==
    /\ ~uncaught
    /\ AutoConnects(variant)
    /\ status \in {"Initializing", "Turn Bluetooth ON"}
    /\ IF poweredOn
       THEN scanForHeartRate
       ELSE /\ status' = "Turn Bluetooth ON"
            /\ UNCHANGED <<scanOn, scanTimers, scansStarted>>
    /\ UNCHANGED <<isScanning, devices, connectedDevice, deviceRef, permPending>>
    /\ UNCHANGED <<envVars, fitVars, ordVars, teleVars, bleVars, storeVars, actVars, obsVars>>

(* ----------------------------- connecting ------------------------------ *)
\* the device list is rendered and shows p
DeviceListed(p) ==
    /\ \E i \in 1..Len(devices) : devices[i] = p
    /\ (HasConnectedDevice(variant) /\ variant # SC) => connectedDevice = NoDevice

\* the user taps a listed device: connectToDevice up to `await device.connect()`
connectToDevice(p) ==
    /\ ~uncaught
    /\ DeviceListed(p)
    /\ nSess < MaxSessions
    /\ nSess' = nSess + 1
    /\ sess' = [sess EXCEPT ![nSess + 1] = [NoSession EXCEPT !.dev = p, !.pc = "connecting"]]
    /\ status' = "Syncing"
    /\ scanOn' = IF ConnectStopsScan(variant) THEN FALSE ELSE scanOn
    /\ isScanning' = IF variant = P0 THEN FALSE ELSE isScanning
    /\ UNCHANGED <<devices, connectedDevice, deviceRef>>
    /\ UNCHANGED <<scanTimers, scansStarted, permPending>>
    /\ UNCHANGED <<polls, pendingDisc, resetPending>>
    /\ UNCHANGED <<envVars, fitVars, ordVars, teleVars, storeVars, actVars, obsVars>>

\* part_001: the scan callback with a peripheral that advertises the
\* heart-rate service: stopDeviceScan and connectDevice up to its first await
scanFound(p) ==
    /\ ~uncaught
    /\ AutoConnects(variant)
    /\ scanOn
    /\ AdvertisesHr(p)
    /\ nSess < MaxSessions
    /\ scanOn' = FALSE
    /\ nSess' = nSess + 1
    /\ sess' = [sess EXCEPT ![nSess + 1] = [NoSession EXCEPT !.dev = p, !.pc = "connecting"]]
    /\ status' = "Syncing"
    /\ UNCHANGED <<isScanning, devices, connectedDevice, deviceRef>>
    /\ UNCHANGED <<scanTimers, scansStarted, permPending>>
    /\ UNCHANGED <<polls, pendingDisc, resetPending>>
    /\ UNCHANGED <<envVars, fitVars, ordVars, teleVars, storeVars, actVars, obsVars>>

\* everything connectToDevice does after its last await: the refs, the
\* monitors, the poll interval and the disconnect handler
Setup(s) ==
    /\ deviceRef' = s
    /\ connectedDevice' = IF HasConnectedDevice(variant) THEN s ELSE connectedDevice
    /\ status' = "Connected"
    /\ devices' = IF ConnectStopsScan(variant) THEN <<>> ELSE devices
    /\ sess' = [sess EXCEPT ![s] = [@ EXCEPT !.pc = "monitoring",
                                             !.hrSub = TRUE,
                                             !.stepSub = HasStepMonitor(variant),
                                             !.interval = HasPoll(variant),
                                             !.handler = HasDisconnectHandler(variant)]]

\* device.connect() resolves
connectOk(s) ==
    /\ ~uncaught
    /\ sess[s].pc = "connecting"
    /\ ~IsLinkUp(sess[s].dev)
    /\ sess[s].dev \notin pendingDisc
    /\ sess' = [sess EXCEPT ![s] = [@ EXCEPT !.pc = "discovering", !.up = TRUE]]
    /\ status' = IF variant = SC THEN "Discovering" ELSE status
    /\ UNCHANGED <<isScanning, devices, connectedDevice, deviceRef>>
    /\ UNCHANGED <<nSess, polls, pendingDisc, resetPending>>
    /\ UNCHANGED <<envVars, fitVars, ordVars, teleVars, scanVars, storeVars, actVars, obsVars>>

\* device.connect() or discoverAllServicesAndCharacteristics() rejects: the
\* catch block of connectToDevice; part_001 calls scanForHeartRate in it
connectFail(s) ==
    /\ ~uncaught
    /\ sess[s].pc \in {"connecting", "discovering"}
    /\ sess' = [sess EXCEPT ![s] = [@ EXCEPT !.pc = "failed"]]
    /\ IF AutoConnects(variant)
       THEN scanForHeartRate
       ELSE /\ status' = "Failed"
            /\ UNCHANGED <<scanOn, scanTimers, scansStarted>>
    /\ UNCHANGED <<isScanning, devices, connectedDevice, deviceRef, permPending>>
    /\ UNCHANGED <<nSess, polls, pendingDisc, resetPending>>
    /\ UNCHANGED <<envVars, fitVars, ordVars, teleVars, storeVars, actVars, obsVars>>

\* discoverAllServicesAndCharacteristics() resolves
discoverOk(s) ==
    /\ ~uncaught
    /\ sess[s].pc = "discovering"
    /\ sess[s].up
    /\ IF variant = SC
       THEN /\ sess' = [sess EXCEPT ![s] = [@ EXCEPT !.pc = "settling"]]
            /\ UNCHANGED <<status, devices, connectedDevice, deviceRef>>
       ELSE Setup(s)
    /\ UNCHANGED <<isScanning, nSess, polls, pendingDisc, resetPending>>
    /\ UNCHANGED <<envVars, fitVars, ordVars, teleVars, scanVars, storeVars, actVars, obsVars>>

\* sensor-correct: the 1 s settle delay and requestMTU are over
settled(s) ==
    /\ ~uncaught
    /\ sess[s].pc = "settling"
    /\ Setup(s)
    /\ UNCHANGED <<isScanning, nSess, polls, pendingDisc, resetPending>>
    /\ UNCHANGED <<envVars, fitVars, ordVars, teleVars, scanVars, storeVars, actVars, obsVars>>

(* ----------------------------- disconnect ------------------------------ *)
\* the peripheral goes out of range or switches off
linkDrop(p) ==
    /\ ~uncaught
    /\ IsLinkUp(p)
    /\ LinkDown(p)
    /\ UNCHANGED <<nSess, polls, resetPending>>
    /\ UNCHANGED <<envVars, fitVars, ordVars, uiVars, teleVars, scanVars, storeVars, actVars, obsVars>>

\* the onDisconnected callbacks registered for peripheral p
onDisconnected(p) ==
    /\ ~uncaught
    /\ p \in pendingDisc
    /\ pendingDisc' = pendingDisc \ {p}
    /\ LET hit == {s \in Sessions : sess[s].dev = p /\ sess[s].handler}
       IN  IF hit = {}
           THEN UNCHANGED <<sess, connectedDevice, deviceRef, status>>
           ELSE /\ sess' = [s \in Sessions |->
                              IF s \in hit
                              THEN [sess[s] EXCEPT
                                      !.interval = FALSE,
                                      !.hrSub = IF RemovesHrSub(variant) THEN FALSE ELSE @]
                              ELSE sess[s]]
                /\ connectedDevice' = NoDevice
                /\ deviceRef' = IF variant = SC THEN NoDevice ELSE deviceRef
                /\ status' = "Disconnected"
    /\ UNCHANGED <<isScanning, devices, nSess, polls, resetPending>>
    /\ UNCHANGED <<envVars, fitVars, ordVars, teleVars, scanVars, storeVars, actVars, obsVars>>

(* ------------------------------- reset --------------------------------- *)
\* resetBluetooth after the link is dealt with: the state it clears
ResetState ==
    /\ connectedDevice' = NoDevice
    /\ devices' = <<>>
    /\ status' = "Bluetooth Reset"
    /\ isScanning' = FALSE

\* the user presses Reset
resetBluetooth ==
    /\ ~uncaught
    /\ HasReset(variant)
    /\ scanOn' = FALSE
    /\ IF variant = SC
       THEN IF deviceRef = NoDevice
            THEN /\ ResetState
                 /\ heartRate' = 0
                 /\ bandSteps' = 0
                 /\ hrHistory' = <<0, 0, 0, 0, 0>>
                 /\ UNCHANGED <<deviceRef, sess, pendingDisc, resetPending>>
            ELSE /\ resetPending = 0
                 /\ resetPending' = IF IsLinkUp(sess[deviceRef].dev) THEN 1 ELSE 0
                 /\ LinkDown(sess[deviceRef].dev)
                 /\ UNCHANGED <<uiVars, heartRate, bandSteps, hrHistory>>
       ELSE /\ ResetState
            /\ IF connectedDevice # NoDevice
               THEN LinkDown(sess[connectedDevice].dev)
               ELSE UNCHANGED <<sess, pendingDisc>>
            /\ UNCHANGED <<deviceRef, resetPending, heartRate, bandSteps, hrHistory>>
    /\ UNCHANGED <<hrFluctuations, dailyRecords, weeklyStats>>
    /\ UNCHANGED <<scanTimers, scansStarted, permPending, nSess, polls>>
    /\ UNCHANGED <<envVars, fitVars, ordVars, storeVars, actVars, obsVars>>

\* sensor-correct: `await deviceRef.current.cancelConnection()` resolved
resetResume ==
    /\ ~uncaught
    /\ resetPending > 0
    /\ resetPending' = resetPending - 1
    /\ deviceRef' = NoDevice
    /\ ResetState
    /\ heartRate' = 0
    /\ bandSteps' = 0
    /\ hrHistory' = <<0, 0, 0, 0, 0>>
    /\ UNCHANGED <<hrFluctuations, dailyRecords, weeklyStats>>
    /\ UNCHANGED <<sess, nSess, polls, pendingDisc>>
    /\ UNCHANGED <<envVars, fitVars, ordVars, scanVars, storeVars, actVars, obsVars>>

(* --------------------------- heart-rate stream -------------------------- *)
\* the monitor callback of HEART_RATE_CHAR with a characteristic value
hrNotify(s, data) ==
    /\ ~uncaught
    /\ sess[s].pc = "monitoring" /\ sess[s].hrSub /\ sess[s].up
    /\ nHr' = nHr + 1
    /\ LET v == variant
           bpm == decodeHeartRate(v, data)
           outcome == IF Len(data) = 0 THEN "skipped"
                      ELSE IF bpm = Threw THEN (IF HrHasTry(v) THEN "caught" ELSE "threw")
                      ELSE IF acceptHeartRate(v, bpm) THEN "accepted"
                      ELSE "dropped"
       IN  /\ hrEvt' = [n |-> nHr + 1, data |-> data,
                        value |-> IF Len(data) = 0 THEN Undef ELSE bpm,
                        outcome |-> outcome]
           /\ uncaught' = (outcome = "threw")
           /\ IF outcome = "accepted"
              THEN /\ heartRate' = bpm
                   /\ hrHistory' = Append(SliceLast(hrHistory, 9), bpm)
                   /\ hrFluctuations' = IF HasFluct(v)
                                        THEN Append(SliceLast(hrFluctuations, 10), bpm)
                                        ELSE hrFluctuations
                   /\ dailyRecords' = IF HasDaily(v)
                                      THEN [dailyRecords EXCEPT !.avgHr = bpm]
                                      ELSE dailyRecords
                   /\ status' = IF v = SC THEN "Reading HR" ELSE status
                   /\ UNCHANGED <<bandSteps, weeklyStats>>
                   /\ saveData
              ELSE UNCHANGED <<teleVars, status, blob>>
    /\ UNCHANGED <<isScanning, devices, connectedDevice, deviceRef>>
    /\ UNCHANGED <<stepEvt, nStep, resetMarker>>
    /\ UNCHANGED <<envVars, fitVars, ordVars, scanVars, bleVars, actVars>>

\* the status a monitor callback reporting connection failure would set
HrErrorFailed(v, code, st) == "Failed"

\* the status after the heart-rate monitor callback was called with an error
HrErrorStatus(v, code, st) ==
    IF v = SC /\ code # DeviceDisconnected THEN "HR Stream Error" ELSE st

\* the monitor callback of HEART_RATE_CHAR with an error, which ends the
\* subscription: DeviceDisconnected when the link is down, else another code
hrError(s, code) ==
    /\ ~uncaught
    /\ sess[s].pc = "monitoring" /\ sess[s].hrSub
    /\ (code = DeviceDisconnected) <=> ~sess[s].up
    /\ sess' = [sess EXCEPT ![s] = [@ EXCEPT !.hrSub = FALSE]]
    /\ nHr' = nHr + 1
    /\ hrEvt' = [n |-> nHr + 1, data |-> <<>>, value |-> Undef, outcome |-> "error"]
    /\ status' = HrErrorStatus(variant, code, status)
    /\ UNCHANGED <<isScanning, devices, connectedDevice, deviceRef>>
    /\ UNCHANGED <<nSess, polls, pendingDisc, resetPending>>
    /\ UNCHANGED <<uncaught, stepEvt, nStep>>
    /\ UNCHANGED <<envVars, fitVars, ordVars, teleVars, scanVars, storeVars, actVars>>

(* ------------------------------ step count ------------------------------ *)
\* from `if (char?.value)` to the end of the poll body (sensor-correct: the
\* body of the step monitor callback)
ApplyStep(data) ==
    LET v == variant
        count == decodeStepCount(v, data)
        outcome == IF Len(data) = 0 THEN "skipped"
                   ELSE IF count = Threw THEN (IF StepHasTry(v) THEN "caught" ELSE "threw")
                   ELSE IF acceptStepCount(v, count) THEN "accepted"
                   ELSE "dropped"
    IN  /\ nStep' = nStep + 1
        /\ stepEvt' = [n |-> nStep + 1, data |-> data,
                       value |-> IF Len(data) = 0 THEN Undef ELSE count,
                       outcome |-> outcome, before |-> bandSteps]
        /\ uncaught' = (outcome = "threw")
        /\ IF outcome = "accepted"
           THEN /\ bandSteps' = count
                /\ dailyRecords' = IF HasDaily(v) THEN StepRecord(v, dailyRecords, count)
                                   ELSE dailyRecords
                /\ weeklyStats' = IF HasWeekly(v) THEN WeeklyOf(v, count) ELSE weeklyStats
                /\ UNCHANGED <<heartRate, hrHistory, hrFluctuations>>
                /\ saveData
           ELSE UNCHANGED <<teleVars, blob>>

\* a tick of the 10 s interval: the poll body up to its first await, while
\* fewer than `most` bodies of the session are in flight
pollTickUnder(s, most) ==
    /\ ~uncaught
    /\ sess[s].interval
    /\ InFlight(s) < most
    /\ PollChecksRef(variant) => deviceRef # NoDevice
    /\ polls' = [polls EXCEPT ![s] =
                   IF PollChecksConnected(variant)
                   THEN [@ EXCEPT !.isConn[deviceRef] = @ + 1]
                   ELSE [@ EXCEPT !.primary = @ + 1]]
    /\ UNCHANGED <<sess, nSess, pendingDisc, resetPending>>
    /\ UNCHANGED <<envVars, fitVars, ordVars, uiVars, teleVars, scanVars, storeVars, actVars, obsVars>>

pollTick(s) == pollTickUnder(s, MaxPolls)

\* of n bodies waiting at an await, k of them overtaken, the one that resumes
\* is an overtaken one (TRUE) or not (FALSE)
ResumesOvertaken(n, k) == {old \in BOOLEAN : IF old THEN k > 0 ELSE n - k > 0}

\* the counts of overtaken bodies once a reading was applied and the bodies
\* `waiting` are left: each body that was not overtaken was started before
\* or after the one that applied
OvertakenBy(s, waiting) ==
    {[isConn |-> conn, primary |-> prim, alt |-> alt] :
        conn \in {f \in [Sessions -> 0..InFlight(s)] :
                    \A d \in Sessions : /\ overtaken[s].isConn[d] <= f[d]
                                         /\ f[d] <= waiting.isConn[d]},
        prim \in overtaken[s].primary..waiting.primary,
        alt \in overtaken[s].alt..waiting.alt}

\* `await deviceRef.current.isConnected()` resolves; d is the device object
\* deviceRef.current held when the tick fired
pollConnected(s, d) ==
    /\ ~uncaught
    /\ polls[s].isConn[d] > 0
    /\ polls' = [polls EXCEPT ![s] =
                   IF IsLinkUp(sess[d].dev)
                   THEN [@ EXCEPT !.isConn[d] = @ - 1, !.primary = @ + 1]
                   ELSE [@ EXCEPT !.isConn[d] = @ - 1]]
    /\ \E old \in ResumesOvertaken(polls[s].isConn[d], overtaken[s].isConn[d]) :
          overtaken' = [overtaken EXCEPT ![s] =
                          IF ~old THEN @
                          ELSE IF IsLinkUp(sess[d].dev)
                          THEN [@ EXCEPT !.isConn[d] = @ - 1, !.primary = @ + 1]
                          ELSE [@ EXCEPT !.isConn[d] = @ - 1]]
    /\ UNCHANGED <<sess, nSess, pendingDisc, resetPending>>
    /\ UNCHANGED <<envVars, fitVars, uiVars, teleVars, scanVars, storeVars, actVars, obsVars>>

\* a rejected read that ends the poll loop: clearInterval in the catch
pollReadFailStops(s, stage) ==
    /\ ~uncaught
    /\ polls[s][stage] > 0
    /\ polls' = [polls EXCEPT ![s] = [@ EXCEPT ![stage] = @ - 1]]
    /\ \E old \in ResumesOvertaken(polls[s][stage], overtaken[s][stage]) :
          overtaken' = [overtaken EXCEPT ![s] =
                          IF old THEN [@ EXCEPT ![stage] = @ - 1] ELSE @]
    /\ sess' = [sess EXCEPT ![s] = [@ EXCEPT !.interval = FALSE]]
    /\ UNCHANGED <<nSess, pendingDisc, resetPending>>
    /\ UNCHANGED <<envVars, fitVars, uiVars, teleVars, scanVars, storeVars, actVars, obsVars>>

\* a readCharacteristicForService() of the poll rejects: the primary read
\* falls back to the alternative endpoint, the alternative read gives up
pollReadFail(s, stage) ==
    /\ ~uncaught
    /\ polls[s][stage] > 0
    /\ polls' = [polls EXCEPT ![s] =
                   IF stage = "primary" /\ PollHasAlt(variant)
                   THEN [@ EXCEPT !.primary = @ - 1, !.alt = @ + 1]
                   ELSE [@ EXCEPT ![stage] = @ - 1]]
    /\ \E old \in ResumesOvertaken(polls[s][stage], overtaken[s][stage]) :
          overtaken' = [overtaken EXCEPT ![s] =
                          IF ~old THEN @
                          ELSE IF stage = "primary" /\ PollHasAlt(variant)
                          THEN [@ EXCEPT !.primary = @ - 1, !.alt = @ + 1]
                          ELSE [@ EXCEPT ![stage] = @ - 1]]
    /\ UNCHANGED <<sess, nSess, pendingDisc, resetPending>>
    /\ UNCHANGED <<envVars, fitVars, uiVars, teleVars, scanVars, storeVars, actVars, obsVars>>

\* a readCharacteristicForService() of the poll resolves with a value
pollReadOk(s, stage, data) ==
    /\ ~uncaught
    /\ polls[s][stage] > 0
    /\ sess[s].up
    /\ polls' = [polls EXCEPT ![s] =
                   [@ EXCEPT ![stage] = @ - 1,
                             !.firstOk = IF @ = "none" THEN stage ELSE @]]
    /\ ApplyStep(data)
    /\ \E old \in ResumesOvertaken(polls[s][stage], overtaken[s][stage]) :
          IF old
          THEN overtaken' = [overtaken EXCEPT ![s] = [@ EXCEPT ![stage] = @ - 1]]
          ELSE IF stepEvt'.outcome = "accepted"
          THEN \E later \in OvertakenBy(s, polls'[s]) :
                  overtaken' = [overtaken EXCEPT ![s] = later]
          ELSE UNCHANGED overtaken
    /\ UNCHANGED <<sess, nSess, pendingDisc, resetPending>>
    /\ UNCHANGED <<hrEvt, nHr, resetMarker>>
    /\ UNCHANGED <<envVars, fitVars, uiVars, scanVars, actVars>>

\* sensor-correct: the monitor callback of STEP_CHAR with a value
stepNotify(s, data) ==
    /\ ~uncaught
    /\ sess[s].pc = "monitoring" /\ sess[s].stepSub /\ sess[s].up
    /\ ApplyStep(data)
    /\ UNCHANGED <<hrEvt, nHr, resetMarker>>
    /\ UNCHANGED <<envVars, fitVars, ordVars, uiVars, scanVars, bleVars, actVars>>

\* sensor-correct: the monitor callback of STEP_CHAR with an error, which
\* ends the subscription
stepError(s) ==
    /\ ~uncaught
    /\ sess[s].pc = "monitoring" /\ sess[s].stepSub
    /\ sess' = [sess EXCEPT ![s] = [@ EXCEPT !.stepSub = FALSE]]
    /\ nStep' = nStep + 1
    /\ stepEvt' = [n |-> nStep + 1, data |-> <<>>, value |-> Undef,
                   outcome |-> "error", before |-> bandSteps]
    /\ UNCHANGED <<nSess, polls, pendingDisc, resetPending>>
    /\ UNCHANGED <<uncaught, hrEvt, nHr>>
    /\ UNCHANGED <<envVars, fitVars, ordVars, uiVars, teleVars, scanVars, storeVars, actVars>>

(* --------------------------- phone step source -------------------------- *)
\* the source tags of the sample sets of getDailyStepCountSamples
Estimated == "com.google.android.gms:estimated_steps"
Merged == "com.google.android.gms:merge_step_deltas"

RECURSIVE SumValues(_)
\* steps.reduce((sum, s) => sum + s.value, 0)
SumValues(steps) ==
    IF Len(steps) = 0 THEN 0 ELSE Head(steps) + SumValues(Tail(steps))

\* res.find((s) => s.source === source): the index of the first sample set
\* with the estimated-steps tag, 0 when there is none
FindEstimated(res) ==
    IF \E i \in 1..Len(res) : res[i].source = Estimated
    THEN CHOOSE i \in 1..Len(res) :
            /\ res[i].source = Estimated
            /\ \A j \in 1..(i - 1) : res[j].source # Estimated
    ELSE 0

\* the total the fetch computes from the answer res
PhoneTotal(v, res) ==
    IF FitTakesFirst(v)
    THEN (IF Len(res) = 0 THEN 0 ELSE SumValues(res[1].steps))
    ELSE (IF FindEstimated(res) = 0 THEN 0
          ELSE SumValues(res[FindEstimated(res)].steps))

\* the interval callback (and the call of the mount effect): the fetch up to
\* its first await
fetchGoogleFitSteps ==
    /\ ~uncaught
    /\ HasPhoneSteps(variant)
    /\ nFit' = nFit + 1
    /\ fitPending' = [fitPending EXCEPT !.auth = @ + 1]
    /\ UNCHANGED <<googleSteps, fitEvt>>
    /\ UNCHANGED <<envVars, ordVars, uiVars, teleVars, scanVars, bleVars, storeVars, actVars, obsVars>>

\* checkIsAuthorized() / authorize() settles: "yes", "no" or "throw"
fitAuthResult(answer) ==
    /\ ~uncaught
    /\ fitPending.auth > 0
    /\ fitPending' =
          IF answer = "yes" \/ (answer = "no" /\ ~FitNeedsAuth(variant))
          THEN [fitPending EXCEPT !.auth = @ - 1, !.samples = @ + 1]
          ELSE [fitPending EXCEPT !.auth = @ - 1]
    /\ UNCHANGED <<googleSteps, fitEvt, nFit>>
    /\ UNCHANGED <<envVars, ordVars, uiVars, teleVars, scanVars, bleVars, storeVars, actVars, obsVars>>

\* getDailyStepCountSamples() resolves with the sample sets res
fitSamplesResult(res) ==
    /\ ~uncaught
    /\ fitPending.samples > 0
    /\ fitPending' = [fitPending EXCEPT !.samples = @ - 1]
    /\ googleSteps' = PhoneTotal(variant, res)
    /\ fitEvt' = [n |-> fitEvt.n + 1, res |-> res]
    /\ UNCHANGED nFit
    /\ UNCHANGED <<envVars, ordVars, uiVars, teleVars, scanVars, bleVars, storeVars, actVars, obsVars>>

\* getDailyStepCountSamples() rejects: the catch block logs the error
fitSamplesFail ==
    /\ ~uncaught
    /\ fitPending.samples > 0
    /\ fitPending' = [fitPending EXCEPT !.samples = @ - 1]
    /\ UNCHANGED <<googleSteps, fitEvt, nFit>>
    /\ UNCHANGED <<envVars, ordVars, uiVars, teleVars, scanVars, bleVars, storeVars, actVars, obsVars>>

(* --------------------------- Rollup Scheduler --------------------------- *)
\* the variant checks for a weekly reset before loading
HasWeeklyReset(v) == v \in {WR, AWT}

\* `await AsyncStorage.getItem(STORAGE_KEY)` issued by loadData
ReadBlob(a) == act' = [act EXCEPT ![a] = [@ EXCEPT !.pc = "readBlob", !.data = blob]]

\* the mount effect calls loadData: up to its first await; the first run
\* comes with the launch, before the user has pressed anything
loadData(a) ==
    /\ ~uncaught
    /\ HasStore(variant)
    /\ act[a].pc = "idle"
    /\ \A b \in Activations : b < a => act[b].pc # "idle"
    /\ a = 1 => (status = "Ready" /\ permPending = 0 /\ nSess = 0)
    /\ IF variant = WR \/ (variant = AWT /\ IsMonday(today))
       THEN act' = [act EXCEPT ![a] = [@ EXCEPT !.pc = "readMarker",
                                                !.today = today,
                                                !.marker = resetMarker,
                                                !.readings = nStep]]
       ELSE act' = [act EXCEPT ![a] = [@ EXCEPT !.pc = "readBlob",
                                                !.today = IF HasWeeklyReset(variant)
                                                          THEN today ELSE @,
                                                !.data = blob,
                                                !.readings = nStep]]
    /\ UNCHANGED <<resetLog>>
    /\ UNCHANGED <<envVars, fitVars, ordVars, uiVars, teleVars, scanVars, bleVars, storeVars, obsVars>>

\* checkWeeklyReset / handleWeeklyReset after the marker was read
checkWeeklyReset(a) ==
    /\ ~uncaught
    /\ act[a].pc = "readMarker"
    /\ IF IsMonday(act[a].today) /\ act[a].marker # act[a].today
       THEN /\ resetLog' = [resetLog EXCEPT ![act[a].today] = @ + 1]
            /\ weeklyStats' = ZeroWeekly
            /\ dailyRecords' = IF variant = AWT THEN ZeroDaily ELSE dailyRecords
            /\ bandSteps' = IF variant = AWT THEN 0 ELSE bandSteps
            /\ UNCHANGED <<heartRate, hrHistory, hrFluctuations>>
            /\ resetMarker' = act[a].today
            /\ saveData
            /\ act' = [act EXCEPT ![a] = [@ EXCEPT !.pc = "wroteMarker",
                                                     !.didReset = TRUE]]
       ELSE /\ ReadBlob(a)
            /\ UNCHANGED <<resetLog, teleVars, storeVars>>
    /\ UNCHANGED <<envVars, fitVars, ordVars, uiVars, scanVars, bleVars, obsVars>>

\* `await AsyncStorage.setItem(RESET_KEY, todayStr)` resolved
markerWritten(a) ==
    /\ ~uncaught
    /\ act[a].pc = "wroteMarker"
    /\ IF variant = WR
       THEN act' = [act EXCEPT ![a] = [@ EXCEPT !.pc = "readBlobReset", !.data = blob]]
       ELSE ReadBlob(a)
    /\ UNCHANGED <<resetLog>>
    /\ UNCHANGED <<envVars, fitVars, ordVars, uiVars, teleVars, scanVars, bleVars, storeVars, obsVars>>

\* weekly-reset: the stored blob was read; clear its weeklyStats
clearStoredWeekly(a) ==
    /\ ~uncaught
    /\ act[a].pc = "readBlobReset"
    /\ IF act[a].data.has
       THEN /\ blob' = [act[a].data EXCEPT !.hasWeekly = TRUE,
                                           !.weeklyStats = ZeroWeekly,
                                           !.weeklyThen = ZeroWeekly]
            /\ act' = [act EXCEPT ![a] = [@ EXCEPT !.pc = "wroteBlob"]]
       ELSE /\ ReadBlob(a)
            /\ UNCHANGED blob
    /\ UNCHANGED <<resetLog, resetMarker>>
    /\ UNCHANGED <<envVars, fitVars, ordVars, uiVars, teleVars, scanVars, bleVars, obsVars>>

\* weekly-reset: the cleared blob was written; back in loadData
blobWritten(a) ==
    /\ ~uncaught
    /\ act[a].pc = "wroteBlob"
    /\ ReadBlob(a)
    /\ UNCHANGED <<resetLog>>
    /\ UNCHANGED <<envVars, fitVars, ordVars, uiVars, teleVars, scanVars, bleVars, storeVars, obsVars>>

\* the placeholder history whatever was stored
NoHistory(saved) == <<0, 0, 0, 0, 0>>

\* savedData.hrHistory && savedData.hrHistory.length > 0
\*    ? savedData.hrHistory : [0, 0, 0, 0, 0]
LoadedHistory(saved) == IF Len(saved) > 0 THEN saved ELSE <<0, 0, 0, 0, 0>>

\* loadData after the blob was read: restore the state from it
applyLoaded(a) ==
    /\ ~uncaught
    /\ act[a].pc = "readBlob"
    /\ act' = [act EXCEPT ![a] = [@ EXCEPT !.pc = "done"]]
    /\ LET d == act[a].data
       IN  IF d.has
           THEN /\ dailyRecords' = d.dailyRecords
                /\ hrHistory' = LoadedHistory(d.hrHistory)
                /\ bandSteps' = d.dailyRecords.steps
                /\ hrFluctuations' = IF HasFluct(variant) THEN d.hrFluctuations
                                     ELSE hrFluctuations
                /\ weeklyStats' = IF variant = WR /\ d.hasWeekly THEN d.weeklyStats
                                  ELSE IF HasWeekly(variant)
                                  THEN WeeklyOf(variant, d.dailyRecords.steps)
                                  ELSE weeklyStats
                /\ UNCHANGED heartRate
                /\ saveData
           ELSE UNCHANGED <<teleVars, blob>>
    /\ UNCHANGED <<resetLog, resetMarker>>
    /\ UNCHANGED <<envVars, fitVars, ordVars, uiVars, scanVars, bleVars, obsVars>>

\* the app is killed and launched again: the storage survives, the component
\* state starts over and the mount effect will run again
relaunch ==
    /\ launches' = launches + 1
    /\ UNCHANGED <<variant, today, storeVars, resetLog>>
    /\ UNCHANGED <<scansStarted, hrEvt, stepEvt, nHr, nStep>>
    /\ status' = InitStatus(variant)
    /\ isScanning' = FALSE
    /\ devices' = <<>>
    /\ connectedDevice' = NoDevice
    /\ deviceRef' = NoDevice
    /\ bandSteps' = 0
    /\ heartRate' = 0
    /\ hrHistory' = InitHistory(variant)
    /\ hrFluctuations' = <<>>
    /\ dailyRecords' = ZeroDaily
    /\ weeklyStats' = ZeroWeekly
    /\ scanOn' = FALSE
    /\ scanTimers' = 0
    /\ permPending' = 0
    /\ sess' = [s \in Sessions |-> NoSession]
    /\ nSess' = 0
    /\ polls' = [s \in Sessions |-> NoPolls]
    /\ overtaken' = [s \in Sessions |-> NoneOvertaken]
    /\ pendingDisc' = {}
    /\ resetPending' = 0
    /\ act' = [a \in Activations |-> NoAct]
    /\ uncaught' = FALSE
    /\ googleSteps' = 0
    /\ fitPending' = NoFetch
    /\ UNCHANGED <<fitEvt, nFit>>

\* midnight passes
nextDay ==
    /\ ~uncaught
    /\ today < 1 + MaxDays
    /\ today' = today + 1
    /\ UNCHANGED <<variant, launches, fitVars, ordVars>>
    /\ UNCHANGED <<uiVars, teleVars, scanVars, bleVars, storeVars, actVars, obsVars>>

\* seven midnights pass
nextWeek ==
    /\ ~uncaught
    /\ today' = today + 7
    /\ UNCHANGED <<variant, launches, fitVars, ordVars>>
    /\ UNCHANGED <<uiVars, teleVars, scanVars, bleVars, storeVars, actVars, obsVars>>

(* ------------------------------- inputs -------------------------------- *)
\* one well-formed heart-rate frame (flags 0, 70 bpm) and one well-formed
\* step frame (100 steps)
PlainHrFrames == {<<0, 70>>}
PlainStepFrames == {<<0, 100, 0, 0, 0>>}

\* answers of getDailyStepCountSamples: one sample set per source
EstimatedSet(steps) == [source |-> Estimated, steps |-> steps]
MergedSet(steps) == [source |-> Merged, steps |-> steps]
FitAnswers ==
    {<<>>,
     <<EstimatedSet(<<10, 20>>)>>,
     <<MergedSet(<<5>>)>>,
     <<MergedSet(<<5>>), EstimatedSet(<<10, 20>>)>>,
     <<EstimatedSet(<<>>), MergedSet(<<5>>)>>}

(* ---------------------------- specifications ---------------------------- *)
ScanNext ==
    \/ scansStarted < MaxScans /\ startScan
    \/ \E granted \in BOOLEAN : permissionResult(granted)
    \/ \E p \in Peripherals : scanResult(p)
    \/ scanError
    \/ scanTimeout

SelectNext(limit) ==
    \/ \E p \in Peripherals : nSess < limit /\ connectToDevice(p)
    \/ \E s \in Sessions : connectOk(s)
    \/ \E s \in Sessions : discoverOk(s)

SettleNext == \E s \in Sessions : settled(s)

AutoNext(limit) ==
    \/ \E poweredOn \in BOOLEAN : scansStarted < limit /\ onStateChange(poweredOn)
    \/ \E p \in Peripherals : scanFound(p)

\* a failed connect of part_001 starts a scan: at most `limit` scans
FailNext(limit) ==
    \E s \in Sessions :
       (AutoConnects(variant) => scansStarted < limit) /\ connectFail(s)

FitNext(answers, limit) ==
    \/ nFit < limit /\ fetchGoogleFitSteps
    \/ \E answer \in {"yes", "no", "throw"} : fitAuthResult(answer)
    \/ \E res \in answers : fitSamplesResult(res)
    \/ fitSamplesFail

DropNext ==
    \/ FailNext(MaxScans)
    \/ \E p \in Peripherals : linkDrop(p)
    \/ \E p \in Peripherals : onDisconnected(p)

ResetNext ==
    \/ resetBluetooth
    \/ resetResume

HrNext(hrFrames, limit) ==
    \E s \in Sessions, data \in hrFrames : nHr < limit /\ hrNotify(s, data)

PollNext(stepFrames, limit) ==
    \/ \E s \in Sessions : pollTick(s)
    \/ \E s \in Sessions, stage \in {"primary", "alt"} : pollReadFail(s, stage)
    \/ \E s \in Sessions, stage \in {"primary", "alt"}, data \in stepFrames :
          nStep < limit /\ pollReadOk(s, stage, data)

PollConnectedNext == \E s \in Sessions, d \in Sessions : pollConnected(s, d)

StepMonitorNext(stepFrames, limit) ==
    \E s \in Sessions, data \in stepFrames : nStep < limit /\ stepNotify(s, data)

StreamErrorNext(limit) ==
    \/ \E s \in Sessions, code \in {DeviceDisconnected, UnknownError} :
          nHr < limit /\ hrError(s, code)
    \/ \E s \in Sessions : nStep < limit /\ stepError(s)

RollupNext ==
    \/ \E a \in Activations : loadData(a)
    \/ \E a \in Activations : checkWeeklyReset(a)
    \/ \E a \in Activations : markerWritten(a)
    \/ \E a \in Activations : clearStoredWeekly(a)
    \/ \E a \in Activations : blobWritten(a)
    \/ \E a \in Activations : applyLoaded(a)
    \/ nextDay
    \/ launches < MaxRelaunches /\ relaunch

Next ==
    \/ ScanNext
    \/ today + 7 <= LastDay /\ nextWeek
    \/ FitNext(FitAnswers, MaxFetches)
    \/ AutoNext(MaxScans)
    \/ SelectNext(MaxSessions)
    \/ SettleNext
    \/ DropNext
    \/ ResetNext
    \/ HrNext(PlainHrFrames, SessionSamples)
    \/ PollNext(PlainStepFrames, SessionSamples)
    \/ PollConnectedNext
    \/ StepMonitorNext(PlainStepFrames, SessionSamples)
    \/ StreamErrorNext(SessionSamples)
    \/ RollupNext

Spec == Init /\ [][Next]_vars

\* the session manager alone: scanning, two selections, streaming, teardown
InitSession == InitFor({WR, AWT, SC}, {0})

SessionNext ==
    \/ ScanNext
    \/ SelectNext(SessionConnects)
    \/ SettleNext
    \/ DropNext
    \/ ResetNext
    \/ HrNext(PlainHrFrames, SessionSamples)
    \/ PollNext(PlainStepFrames, SessionSamples)
    \/ PollConnectedNext
    \/ StepMonitorNext(PlainStepFrames, SessionSamples)

SpecSession == InitSession /\ [][SessionNext]_vars

\* reconnecting: the weekly-reset variant with three selections and no reset
InitReconnect == InitFor({WR}, {0})

ReconnectNext ==
    \/ scansStarted < MaxScans /\ startScan
    \/ permissionResult(TRUE)
    \/ \E p \in Peripherals : scanResult(p)
    \/ SelectNext(MaxSessions)
    \/ \E p \in Peripherals : linkDrop(p)
    \/ \E p \in Peripherals : onDisconnected(p)
    \/ HrNext(PlainHrFrames, SessionSamples)
    \/ PollNext(PlainStepFrames, SessionSamples)
    \/ PollConnectedNext

SpecReconnect == InitReconnect /\ [][ReconnectNext]_vars

(* ------------------------- Session Manager claims ------------------------ *)
\* this step is a heart-rate callback that applied its sample to the state
HrApplied == nHr' = nHr + 1 /\ hrEvt'.outcome = "accepted"

\* this step is a step decode that applied its sample to the state
StepApplied == nStep' = nStep + 1 /\ stepEvt'.outcome = "accepted"

\* session s finished its setup and its link is up
Monitoring(s) == sess[s].pc = "monitoring" /\ sess[s].up

\* session s still holds a resource: its link, its interval or a subscription
Live(s) == sess[s].up \/ sess[s].interval \/ sess[s].hrSub \/ sess[s].stepSub

\* C1: while a device is connected, the disconnect event of a peripheral with
\* a set-up session sets the status to Disconnected, clears that session's poll
\* interval and removes its heart-rate subscription; while the status is
\* Disconnected no heart-rate or step sample is applied
C1_DisconnectTearsDown ==
    [][/\ \A p \in Peripherals :
            (/\ p \in pendingDisc
             /\ p \notin pendingDisc'
             /\ connectedDevice # NoDevice
             /\ \E s \in Sessions : sess[s].dev = p /\ sess[s].pc = "monitoring")
            => /\ status' = "Disconnected"
               /\ \A s \in Sessions :
                    (sess[s].dev = p /\ sess[s].pc = "monitoring")
                    => (~sess'[s].interval /\ ~sess'[s].hrSub)
       /\ status = "Disconnected" => ~(HrApplied \/ StepApplied)]_vars

\* C2: in the weekly-reset variant at most one poll interval and at most one
\* heart-rate subscription are registered at any time, whatever the order of
\* selections and connects
C2_OneIntervalOneSubscription ==
    variant = WR =>
    /\ Cardinality({s \in Sessions : sess[s].interval}) <= 1
    /\ Cardinality({s \in Sessions : sess[s].hrSub}) <= 1

\* C3: when connectToDevice starts while a session is monitoring, that session
\* has no interval, no subscription and no link once the new session is in its
\* connecting state
C3_ConnectTearsDownOld ==
    [][nSess' = nSess + 1
       => \A s \in Sessions : Monitoring(s) => ~Live(s)']_vars

\* C4: in the weekly-reset and sensor-correct variants, once resetBluetooth has run and the disconnect events it caused are
\* delivered, the scan is stopped and no session holds a link, an interval or
\* a subscription for as long as the status reads Bluetooth Reset, and no
\* sample is applied in that time
C4_ResetIsOneTeardown ==
    [][(variant \in {WR, SC}) =>
       (/\ (status' = "Bluetooth Reset" /\ pendingDisc' = {} /\ resetPending' = 0)
           => (~scanOn' /\ \A s \in Sessions : ~Live(s)')
        /\ status = "Bluetooth Reset" => ~(HrApplied \/ StepApplied))]_vars

\* the frame decoder: one session fed with frames of every shape
HrFrames ==
    LET flags == {0, 1, 22}
        low == {0, 25, 44, 70, 250}
        high == {0, 1}
    IN  {<<>>} \cup {<<f>> : f \in flags}
        \cup {<<f, b>> : f \in flags, b \in low}
        \cup {<<f, b, h>> : f \in flags, b \in low, h \in high}

StepFrames ==
    {<<>>, <<0>>, <<0, 100>>, <<0, 100, 0>>, <<0, 100, 0, 0>>,
     <<0, 100, 0, 0, 0>>, <<0, 0, 0, 0, 0>>, <<0, 100, 0, 0, 1>>,
     <<1, 44, 1, 0, 0>>, <<0, 100, 0, 0, 0, 9>>, <<0, 136, 19, 0, 0>>}

InitFrames == InitFor(Variants, {0})

FramesNext ==
    \/ scansStarted < MaxScans /\ startScan
    \/ permissionResult(TRUE)
    \/ \E p \in {1} : scanResult(p)
    \/ SelectNext(1)
    \/ SettleNext
    \/ HrNext(HrFrames, FrameSamples)
    \/ PollNext(StepFrames, FrameSamples)
    \/ PollConnectedNext
    \/ StepMonitorNext(StepFrames, FrameSamples)

SpecFrames == InitFrames /\ [][FramesNext]_vars

\* the rollup scheduler: one selection feeding step readings, activations of
\* the mount effect, relaunches and midnights
InitRollup == InitFor({WR, AWT}, {0})

RollupSpecNext ==
    \/ scansStarted < MaxScans /\ startScan
    \/ permissionResult(TRUE)
    \/ \E p \in {1} : scanResult(p)
    \/ SelectNext(1)
    \/ PollNext(PlainStepFrames, SessionSamples)
    \/ PollConnectedNext
    \/ RollupNext

SpecRollup == InitRollup /\ [][RollupSpecNext]_vars

\* C5: the reset branch of the weekly check is entered at most once for any
\* one date, whatever the number and the interleaving of its runs
C5_ResetOncePerDate == \A d \in DOMAIN resetLog : resetLog[d] <= 1

\* C6: when a run of loadData performed the weekly reset and is complete, and
\* no step reading was taken since the run began, the weekly totals are zero
C6_ResetSurvivesLoad ==
    \A a \in Activations :
        (act[a].pc = "done" /\ act[a].didReset /\ act[a].readings = nStep)
        => weeklyStats = ZeroWeekly

(* -------------------------- Frame Decoder claims ------------------------- *)
\* the little-endian 24-bit value at offset 1 of a payload of 4 bytes or more
LE24(data) == data[2] + 256 * data[3] + 65536 * data[4]

\* the heart-rate value the flags byte of the payload calls for; Undef when
\* the payload is too short for it
HrByFlags(data) ==
    IF Len(data) = 0 THEN Undef
    ELSE IF data[1] % 2 = 0 THEN (IF Len(data) >= 2 THEN data[2] ELSE Undef)
    ELSE IF Len(data) >= 3 THEN data[2] + 256 * data[3] ELSE Undef

\* C7: in the weekly-reset variant and part_002, a step payload of 4 bytes or
\* more decodes to the little-endian value at offset 1 masked to 24 bits
\* (<<0, 100, 0, 0>> to 100)
C7_StepDecode ==
    (variant \in {WR, P2} /\ stepEvt.outcome # "none" /\ Len(stepEvt.data) >= 4)
    => stepEvt.value = LE24(stepEvt.data)

\* C8: in the weekly-reset and sensor-correct variants, a heart-rate payload
\* long enough for its flags, when the callback decodes it to a value, decodes
\* by bit 0 of the flags byte: clear, the byte at offset 1; set, the
\* little-endian 16-bit value at offset 1
C8_HrDecodeFollowsFlags ==
    (/\ variant \in {WR, SC}
     /\ hrEvt.outcome \in {"accepted", "dropped"}
     /\ HrByFlags(hrEvt.data) # Undef)
    => hrEvt.value = HrByFlags(hrEvt.data)

\* C9: in the weekly-reset variant and part_000, a heart-rate payload too
\* short for its flags and a step payload under 4 bytes apply no sample, leave
\* the telemetry and the session unchanged and let no exception escape
C9_ShortPayloadDropped ==
    [][(variant \in {WR, P0}) =>
       (/\ (nHr' = nHr + 1 /\ HrByFlags(hrEvt'.data) = Undef)
           => (UNCHANGED <<teleVars, sess>> /\ ~uncaught')
        /\ (nStep' = nStep + 1 /\ Len(stepEvt'.data) < 4)
           => (UNCHANGED <<teleVars, sess>> /\ ~uncaught'))]_vars

\* C10: in the weekly-reset, crash-changes and pair-done-working variants, a
\* decoded bpm below 30 or above 220 leaves the history window, the heart
\* rate and the last heart rate of the daily record unchanged
C10_OutOfRangeDiscarded ==
    [][(/\ variant \in {WR, CC, PDW}
        /\ nHr' = nHr + 1
        /\ hrEvt'.value >= 0
        /\ (hrEvt'.value < 30 \/ hrEvt'.value > 220))
       => UNCHANGED <<hrHistory, heartRate, dailyRecords>>]_vars

(* ----------------------- Telemetry Aggregator claims --------------------- *)
\* C11: in the weekly-reset and crash-changes variants, a step decode whose
\* count is exactly 0 leaves bandSteps, the daily record and the weekly stats
\* unchanged
C11_ZeroCountDiscarded ==
    [][(/\ variant \in {WR, CC}
        /\ nStep' = nStep + 1
        /\ stepEvt'.value = 0)
       => UNCHANGED <<bandSteps, dailyRecords, weeklyStats>>]_vars

\* the history window: one session fed with the bpm series 60, 65, 70, ...
\* (the n-th notification carries 55 + 5n), next to one step reading, the
\* mount effect and a relaunch
WindowFrames(n) == {<<0, 55 + 5 * n>>}

InitWindow == InitFor({WR}, {0})

WindowNext ==
    \/ scansStarted < MaxScans /\ startScan
    \/ permissionResult(TRUE)
    \/ \E p \in {1} : scanResult(p)
    \/ SelectNext(1)
    \/ \E s \in Sessions, data \in WindowFrames(nHr + 1) :
          nHr < WindowSamples /\ hrNotify(s, data)
    \/ PollNext(PlainStepFrames, SessionSamples)
    \/ PollConnectedNext
    \/ \E a \in Activations : loadData(a)
    \/ \E a \in Activations : checkWeeklyReset(a)
    \/ \E a \in Activations : applyLoaded(a)
    \/ launches < MaxRelaunches /\ relaunch

SpecWindow == InitWindow /\ [][WindowNext]_vars

\* C12 as stated: the window holds appended samples only, so it never has
\* more entries than heart-rate notifications were delivered
C12_WindowHoldsOnlySamples == nHr >= 1 => Len(hrHistory) <= nHr

\* C12: hrHistory never holds more than 10 entries, and an accepted sample is
\* appended as the newest entry behind the entries the window held (the five
\* placeholder zeros or the loaded history included), all of them kept while
\* the window holds fewer than 10 and all but the oldest once it holds 10
C12_WindowIsFifo ==
    /\ [](Len(hrHistory) <= 10)
    /\ [][HrApplied =>
          hrHistory' = Append(IF Len(hrHistory) = 10 THEN Tail(hrHistory)
                              ELSE hrHistory, hrEvt'.value)]_vars

\* the series 60, 65, ..., 110 has been appended: 60 is evicted
C12_Witness == hrHistory = <<65, 70, 75, 80, 85, 90, 95, 100, 105, 110>>

\* floor(s * 0.045)
CaloriesOf(s) == (s * 45) \div 1000

\* s * 0.000762 rounded to 2 decimals, in hundredths of a km
DistanceOf(s) == (s * 762 + 5000) \div 10000

\* C13: in the weekly-reset and crash-changes variants the calories and the
\* distance of the daily record and of the weekly stats are floor(s * 0.045)
\* and s * 0.000762 rounded to 2 decimals of the record's own step count s
C13_DerivedMetrics ==
    variant \in {WR, CC} =>
    /\ dailyRecords.calories = CaloriesOf(dailyRecords.steps)
    /\ dailyRecords.distance = DistanceOf(dailyRecords.steps)
    /\ weeklyStats.calories = CaloriesOf(weeklyStats.steps)
    /\ weeklyStats.distance = DistanceOf(weeklyStats.steps)

\* C14: in the weekly-reset variant and part_002 an applied step reading
\* becomes the step count of the daily record as it is, whatever the count
\* was before, and a reading equal to the one applied before it leaves the
\* daily record as it was
C14_ReplaceNotAccumulate ==
    [][(variant \in {WR, P2} /\ StepApplied) =>
       (/\ dailyRecords'.steps = stepEvt'.value
        /\ bandSteps = stepEvt'.value => dailyRecords' = dailyRecords)]_vars

\* the same reading was applied twice in a row, on top of a non-zero count
C14_Witness ==
    /\ variant \in {WR, P2}
    /\ stepEvt.n = 2 /\ stepEvt.outcome = "accepted"
    /\ stepEvt.before = stepEvt.value
    /\ dailyRecords.steps = stepEvt.value

(* ------------------------- endpoint selection claims --------------------- *)
\* a read of the step endpoint `stage` is issued for session s in this step
ReadIssued(s, stage) == polls'[s][stage] > polls[s][stage]

\* C15: in the weekly-reset variant and part_002 the alternative step endpoint
\* is read only when a read of the primary one has just failed, and once a read
\* of one endpoint has resolved for a session the other endpoint is not read
\* again for that session
C15_FirstSuccessPinned ==
    [][(variant \in {WR, P2}) =>
       \A s \in Sessions :
          /\ ReadIssued(s, "alt") => polls'[s].primary < polls[s].primary
          /\ polls[s].firstOk = "alt" => ~ReadIssued(s, "primary")
          /\ polls[s].firstOk = "primary" => ~ReadIssued(s, "alt")]_vars

\* the measurement streams of one session: samples and failures of both, a
\* link drop and its disconnect event
InitStreams == InitFor({WR, PDW, SC}, {0})

StreamsNext ==
    \/ scansStarted < MaxScans /\ startScan
    \/ permissionResult(TRUE)
    \/ \E p \in {1} : scanResult(p)
    \/ SelectNext(1)
    \/ SettleNext
    \/ \E p \in Peripherals : linkDrop(p)
    \/ \E p \in Peripherals : onDisconnected(p)
    \/ HrNext(PlainHrFrames, StreamSamples)
    \/ PollNext(PlainStepFrames, StreamSamples)
    \/ PollConnectedNext
    \/ StepMonitorNext(PlainStepFrames, StreamSamples)
    \/ StreamErrorNext(StreamSamples)

SpecStreams == InitStreams /\ [][StreamsNext]_vars

\* this step is the heart-rate monitor callback reporting a failure of the
\* stream on a link that is up
HrStreamFailed(s) ==
    /\ nHr' = nHr + 1 /\ hrEvt'.outcome = "error"
    /\ sess[s].hrSub /\ ~sess'[s].hrSub /\ sess[s].up

\* this step ends a step reading of session s with every candidate failed
StepStreamFailed(s) ==
    \/ /\ nStep' = nStep
       /\ \/ polls'[s].alt < polls[s].alt
          \/ ~PollHasAlt(variant) /\ polls'[s].primary < polls[s].primary
    \/ nStep' = nStep + 1 /\ stepEvt'.outcome = "error" /\ sess[s].stepSub

\* C16: in the weekly-reset and sensor-correct variants a step reading whose
\* every candidate failed, or an error of the step monitor, leaves the session
\* monitoring with its heart-rate subscription and the status as they were; an
\* error of the heart-rate monitor on a link that is up leaves the session
\* monitoring with its poll interval and step subscription, and the status
\* does not read Failed
C16_StreamFailureIsLocal ==
    [][\A s \in Sessions :
          /\ (StepStreamFailed(s) /\ Monitoring(s))
             => /\ Monitoring(s)'
                /\ sess'[s].hrSub = sess[s].hrSub
                /\ sess'[s].interval = sess[s].interval
                /\ status' = status
          /\ (HrStreamFailed(s) /\ Monitoring(s))
             => /\ Monitoring(s)'
                /\ sess'[s].interval = sess[s].interval
                /\ sess'[s].stepSub = sess[s].stepSub
                /\ status' # "Failed"]_vars

\* the heart-rate stream has failed and a step reading was applied after it
C16_Witness ==
    /\ hrEvt.outcome = "error"
    /\ stepEvt.outcome = "accepted"
    /\ \E s \in Sessions : Monitoring(s) /\ ~sess[s].hrSub

(* ---------------------------- step poll claims --------------------------- *)
\* this step is a rejected read of the step poll of session s
PollReadFailed(s) ==
    /\ nStep' = nStep
    /\ \/ polls'[s].primary < polls[s].primary
       \/ polls'[s].alt < polls[s].alt

\* this step resumes the poll body of session s after isConnected() resolved
PollResumed(s) == \E d \in Sessions : polls'[s].isConn[d] < polls[s].isConn[d]

InitConnect == InitFor({WR, PDW, P0, P1}, {0})

ConnectNext ==
    \/ scansStarted < ConnectScans /\ startScan
    \/ \E granted \in BOOLEAN : permissionResult(granted)
    \/ \E p \in Peripherals : scanResult(p)
    \/ scanError
    \/ scanTimeout
    \/ AutoNext(ConnectScans)
    \/ SelectNext(SessionConnects)
    \/ FailNext(ConnectScans)
    \/ \E p \in Peripherals : linkDrop(p)
    \/ \E p \in Peripherals : onDisconnected(p)
    \/ resetBluetooth

SpecConnect == InitConnect /\ [][ConnectNext]_vars
\* this step is the catch block of a connection attempt of session s
ConnectionFailed(s) ==
    sess[s].pc \in {"connecting", "discovering"} /\ sess'[s].pc = "failed"

\* C18: a failed connection attempt reports the connection failure and is
\* not retried: the step of the failure leaves the status at the failure
\* report and starts neither a scan nor a connection attempt
C18_FailureNotRetried ==
    [][\A s \in Sessions :
          ConnectionFailed(s) =>
             /\ status' = "Failed"
             /\ scansStarted' = scansStarted
             /\ scanOn' = scanOn
             /\ scanTimers' = scanTimers
             /\ nSess' = nSess]_vars

\* C19: the list of discovered peripherals holds only peripherals that
\* advertise a name, and no peripheral twice
C19_NamedAndDistinct ==
    /\ \A i \in 1..Len(devices) : HasName(devices[i])
    /\ \A i, j \in 1..Len(devices) : devices[i] = devices[j] => i = j

\* this step is the timeout callback of a scan
ScanTimedOut == scanTimers' = scanTimers - 1

\* the statuses reported after a selection (connecting, monitoring,
\* disconnected), after a scan error and after a reset
StatusAfterScan ==
    {"Syncing", "Connected", "Disconnected", "Scan Error", "Bluetooth Reset"}

\* C20: when the scan timeout fires after a peripheral was selected, after
\* a scan error or after a reset, it changes neither the sessions nor the
\* reported status
C20_TimeoutOnlyWhenScanning ==
    [][(variant \in {WR, PDW, P1} /\ ScanTimedOut /\ status \in StatusAfterScan)
          => /\ status' = status
             /\ sess' = sess
             /\ connectedDevice' = connectedDevice]_vars

(* --------------------------- phone step claims -------------------------- *)
\* the phone step poll beside one session: scan, selection, step polls,
\* disconnect and reset
InitPhone == InitFor({WR, PDW, P0}, {0})

PhoneNext ==
    \/ scansStarted < MaxScans /\ startScan
    \/ permissionResult(TRUE)
    \/ \E p \in {1} : scanResult(p)
    \/ scanTimeout
    \/ SelectNext(1)
    \/ \E p \in Peripherals : linkDrop(p)
    \/ \E p \in Peripherals : onDisconnected(p)
    \/ resetBluetooth
    \/ PollNext(PlainStepFrames, SessionSamples)
    \/ PollConnectedNext
    \/ FitNext(FitAnswers, MaxFetches)

SpecPhone == InitPhone /\ [][PhoneNext]_vars

\* this step belongs to a phone step fetch
FitStep == fitVars' # fitVars

\* C21: the phone step poll can fire in every state of the session, and a
\* step of a fetch changes nothing but the phone step count: band steps,
\* daily and weekly record, history, the status, the scan and the sessions
\* stay as they were
C21_PhonePollIndependent ==
    /\ []((~uncaught /\ variant # SC) => ENABLED fetchGoogleFitSteps)
    /\ [][FitStep => UNCHANGED <<teleVars, uiVars, scanVars, bleVars, storeVars>>]_vars

\* two answers of the phone source were applied, the second with the
\* estimated-steps set, and the session took a step reading and is
\* disconnected
C21_Witness ==
    /\ fitEvt.n = 2 /\ googleSteps = 30
    /\ bandSteps = 100
    /\ status = "Disconnected"

\* the sum of the values of the sample set of res that carries the
\* estimated-steps tag, 0 when res has no such set
EstimatedTotal(res) ==
    LET tagged == {i \in 1..Len(res) : res[i].source = Estimated}
    IN  IF tagged = {} THEN 0 ELSE SumValues(res[CHOOSE i \in tagged : TRUE].steps)

\* C22: the phone step count set from an answer of the phone source is the
\* sum of the values of its estimated-steps sample set, and 0 when the answer
\* has no such set; the sets of other sources add nothing
C22_OnlyEstimatedSource ==
    [][(fitEvt'.n = fitEvt.n + 1) => googleSteps' = EstimatedTotal(fitEvt'.res)]_vars

(* --------------------------- persistence claims ------------------------- *)
\* this step is the write that ends the read-modify-write of the stored
\* blob in run a of the weekly reset check
ResetWrites(a) == act[a].pc = "readBlobReset" /\ act'[a].pc = "wroteBlob"

\* C23: the read-modify-write of the stored blob done by the weekly reset
\* check is not interleaved with another write of the same key: what it
\* read is still what is stored when it writes
C23_WritesSerialized ==
    [][\A a \in Activations : ResetWrites(a) => act[a].data = blob]_vars

\* saving and restoring: one selection feeding heart-rate samples and step
\* readings, runs of loadData, relaunches and midnights, for the variants
\* that keep a blob
InitRestore == InitFor({WR, AWT, P2}, {0})

RestoreNext ==
    \/ scansStarted < MaxScans /\ startScan
    \/ permissionResult(TRUE)
    \/ \E p \in {1} : scanResult(p)
    \/ SelectNext(1)
    \/ HrNext(PlainHrFrames, SessionSamples)
    \/ PollNext(PlainStepFrames, SessionSamples)
    \/ PollConnectedNext
    \/ RollupNext

SpecRestore == InitRestore /\ [][RestoreNext]_vars

\* this step is run a of loadData applying the blob it read
LoadApplies(a) ==
    act[a].pc = "readBlob" /\ act'[a].pc = "done" /\ act[a].data.has

\* C24: on a day that is not a Monday, loadData restores the daily record,
\* the heart-rate history and the weekly totals to the values they had when
\* the blob it read was saved
C24_RestoredAsSaved ==
    [][\A a \in Activations :
          (LoadApplies(a) /\ ~IsMonday(today))
          => /\ dailyRecords' = act[a].data.dailyRecords
             /\ hrHistory' = act[a].data.hrHistory
             /\ HasWeekly(variant) => weeklyStats' = act[a].data.weeklyThen]_vars

\* after a relaunch on a day that is not a Monday, with no band connected,
\* loadData has brought back a step reading and a heart-rate sample
C24_Witness ==
    /\ launches = 1 /\ nSess = 0 /\ ~IsMonday(today)
    /\ act[1].pc = "done"
    /\ dailyRecords.steps = 100
    /\ hrHistory[Len(hrHistory)] = 70

(* --------------------------- failure path claims ------------------------ *)
\* C25: a session whose connection attempt failed, at connect or at service
\* discovery, is not half-initialized: its link is not open, and it has no
\* poll interval and no subscription
C25_FailedIsClean ==
    \A s \in Sessions :
        sess[s].pc = "failed"
        => /\ ~sess[s].up
           /\ ~sess[s].interval
           /\ ~sess[s].hrSub
           /\ ~sess[s].stepSub

\* this step belongs to the session lifecycle: a selection, a step of the
\* connection attempt, a link loss, a disconnect event or a Bluetooth reset
LifecycleStep ==
    \/ nSess' # nSess
    \/ sess' # sess
    \/ resetPending' # resetPending
    \/ status' # status /\ status' \in {"Bluetooth Reset", "Disconnected"}

\* C26: connecting, a disconnect event and a Bluetooth reset leave the
\* weekly record, the daily record and the heart-rate history unchanged
C26_LifecycleKeepsRollups ==
    [][LifecycleStep => UNCHANGED <<weeklyStats, dailyRecords, hrHistory>>]_vars

(* ------------------------------ rollup claims --------------------------- *)
\* C27: after an accepted step reading, and after loadData applied a blob
\* that carries no weekly totals, the weekly step count equals the daily
\* step count
C27_WeeklyFromDaily ==
    [][(variant \in {WR, AWT})
          => /\ StepApplied => weeklyStats'.steps = dailyRecords'.steps
             /\ \A a \in Activations :
                   (LoadApplies(a) /\ ~act[a].data.hasWeekly)
                   => weeklyStats'.steps = dailyRecords'.steps]_vars

(* ------------------------- heart-rate range claims ---------------------- *)
\* heart-rate frames (flags 0) around the two bounds of the sanity filter
RangeFrames == {<<0, b>> : b \in {29, 30, 31, 219, 220, 221}}

InitRange == InitFor({WR, AWT, P2}, {0})

RangeNext ==
    \/ scansStarted < MaxScans /\ startScan
    \/ permissionResult(TRUE)
    \/ \E p \in {1} : scanResult(p)
    \/ scanTimeout
    \/ SelectNext(1)
    \/ \E p \in Peripherals : linkDrop(p)
    \/ \E p \in Peripherals : onDisconnected(p)
    \/ HrNext(RangeFrames, FrameSamples)

SpecRange == InitRange /\ [][RangeNext]_vars

\* C28: a heart-rate notification whose decoded value is between 30 and 220,
\* both included, is accepted: the value is appended to the history and
\* becomes the last heart rate of the daily record
C28_InRangeAccepted ==
    [][(nHr' = nHr + 1 /\ hrEvt'.value >= 30 /\ hrEvt'.value <= 220)
          => /\ hrHistory'[Len(hrHistory')] = hrEvt'.value
             /\ dailyRecords'.avgHr = hrEvt'.value]_vars

(* --------------------------- week crossing claims ----------------------- *)
\* the weekly reset over two calendar weeks: step readings, runs of loadData,
\* midnights, a skipped week and a relaunch
InitCrossing == InitFor({WR, AWT}, {0})

CrossingNext ==
    \/ scansStarted < MaxScans /\ startScan
    \/ permissionResult(TRUE)
    \/ \E p \in {1} : scanResult(p)
    \/ SelectNext(1)
    \/ PollNext(PlainStepFrames, SessionSamples)
    \/ PollConnectedNext
    \/ \E a \in {1} : loadData(a)
    \/ \E a \in {1} : checkWeeklyReset(a)
    \/ \E a \in {1} : markerWritten(a)
    \/ \E a \in {1} : clearStoredWeekly(a)
    \/ \E a \in {1} : blobWritten(a)
    \/ \E a \in {1} : applyLoaded(a)
    \/ nextDay
    \/ today + 7 <= LastDay /\ nextWeek
    \/ launches < MaxRelaunches /\ relaunch

SpecCrossing == InitCrossing /\ [][CrossingNext]_vars

\* C29: when a run of loadData is complete on a day of a later calendar
\* week than the stored reset marker, and no step reading was taken since
\* the run began, the weekly totals are zero, whatever the weekday
C29_ResetOnWeekCrossing ==
    \A a \in Activations :
        (/\ act[a].pc = "done"
         /\ act[a].today # NoDate /\ resetMarker # NoDate
         /\ Week(act[a].today) > Week(resetMarker)
         /\ act[a].readings = nStep)
        => weeklyStats = ZeroWeekly

(* ---------------------------- scan timer claims ------------------------- *)
\* C30: a scan is bounded by its own timeout only: while timers of more than
\* one scan are armed, the one that fires, which was armed by an earlier
\* scan, neither stops the scan that is running nor clears its scanning flag
C30_OwnTimeoutOnly ==
    [][(variant \in {WR, PDW, P0} /\ ScanTimedOut /\ scanTimers > 1)
          => (scanOn' = scanOn /\ isScanning' = isScanning)]_vars

(* ------------------------------ scan claims ----------------------------- *)
\* this step starts a transport scan and arms its timeout
ScanBegun == scanTimers' = scanTimers + 1

\* C31: at most one scan is in progress: a step that starts a transport scan
\* and arms its timeout is taken only while no scan is running and the
\* scanning flag is clear
C31_OneScanAtATime ==
    [][ScanBegun => (~scanOn /\ ~isScanning)]_vars

\* session s is locked onto its peripheral: connecting, discovering, settling
\* or monitoring over a link that is up
Locked(s) ==
    \/ sess[s].pc \in {"connecting", "discovering", "settling"}
    \/ Monitoring(s)

\* C32: scanning ends when a peripheral is selected: while a session is
\* connecting, discovering or monitoring the transport does not scan and the
\* scanning flag is clear, and the list of discovered peripherals does not
\* grow
C32_ScanEndsAtSelection ==
    /\ [](\A s \in Sessions : Locked(s) => (~scanOn /\ ~isScanning))
    /\ [][(\E s \in Sessions : Locked(s)) => Len(devices') <= Len(devices)]_vars

(* ------------------------ reset and connect claims ---------------------- *)
\* the connection attempt of session s has not resolved: connectToDevice is
\* at one of its awaits
AttemptInFlight(s) == sess[s].pc \in {"connecting", "discovering", "settling"}

\* C33: a reset issued while a connection attempt is in flight wins: while
\* the status still reads Bluetooth Reset, a step of that attempt neither
\* brings its session to monitoring nor creates a poll interval or a
\* heart-rate subscription
C33_ResetWinsOverConnect ==
    [][\A s \in Sessions :
          (status = "Bluetooth Reset" /\ AttemptInFlight(s))
          => /\ sess'[s].pc # "monitoring"
             /\ ~sess'[s].interval
             /\ ~sess'[s].hrSub]_vars

(* ------------------------- fluctuation window claims -------------------- *)
\* C34: the heart-rate fluctuation window is a FIFO of capacity 10: it never
\* holds more than 10 entries
C34_FluctuationsCapped == Len(hrFluctuations) <= 10

(* ------------------------------ flush claims ---------------------------- *)
\* this step is the reset branch of the weekly check
WeeklyResetDone == \E a \in Activations : act'[a].didReset /\ ~act[a].didReset

\* the stored blob holds the daily record, the history and the fluctuation
\* window of the memory
Flushed ==
    /\ blob.has
    /\ blob.dailyRecords = dailyRecords
    /\ blob.hrHistory = hrHistory
    /\ blob.hrFluctuations = hrFluctuations

\* C35: every change of the durable state is flushed: the auto-save that
\* follows an accepted heart-rate sample, an accepted step reading or a weekly
\* reset leaves the stored blob equal to the daily record, the history and
\* the fluctuation window in memory, a daily step count of 0 included
C35_ChangesFlushed ==
    [][(HrApplied \/ StepApplied \/ WeeklyResetDone) => Flushed']_vars

(* --------------------------- poll overlap claims ------------------------ *)
\* step frames with two different counts: 100 and 200 steps
OverlapFrames == {<<0, 100, 0, 0, 0>>, <<0, 200, 0, 0, 0>>}

\* the step poll with ticks that fire while an earlier body is at an await:
\* one selection, two bodies in flight, reads that fail or resolve in any
\* order, a link loss and its disconnect event
InitOverlap == InitFor({WR, AWT}, {0})

OverlapNext ==
    \/ scansStarted < MaxScans /\ startScan
    \/ permissionResult(TRUE)
    \/ \E p \in {1} : scanResult(p)
    \/ SelectNext(1)
    \/ \E p \in Peripherals : linkDrop(p)
    \/ \E p \in Peripherals : onDisconnected(p)
    \/ \E s \in Sessions : pollTickUnder(s, OverlapPolls)
    \/ PollConnectedNext
    \/ \E s \in Sessions, stage \in {"primary", "alt"} : pollReadFail(s, stage)
    \/ \E s \in Sessions, stage \in {"primary", "alt"}, data \in OverlapFrames :
          nStep < OverlapSamples /\ pollReadOk(s, stage, data)

SpecOverlap == InitOverlap /\ [][OverlapNext]_vars

\* the poll bodies of session s in flight that were overtaken
Overtaken(s) ==
    SumTo(overtaken[s].isConn, MaxSessions) + overtaken[s].primary + overtaken[s].alt

\* this step applies the reading of a poll body of session s that was started
\* before the body whose reading was applied last
AppliesOvertaken(s) == StepApplied /\ Overtaken(s)' < Overtaken(s)

\* C36: step polls neither overlap nor reorder: at most one poll body of a
\* session is in flight at a time, and no reading is applied that comes from
\* a body started before the body whose reading was applied last
C36_PollsInOrder ==
    /\ [](\A s \in Sessions : InFlight(s) <= 1)
    /\ [][\A s \in Sessions : ~AppliesOvertaken(s)]_vars

(* --------------------------- sample kind claims ------------------------- *)
\* C37: the two sample kinds update disjoint parts of the aggregate: an
\* accepted heart-rate sample leaves the steps, the calories and the distance
\* of the daily record and the weekly record unchanged, and an accepted step
\* reading leaves the last heart rate of the daily record, the displayed
\* heart rate and the history window unchanged
C37_SampleKindsDisjoint ==
    [][/\ HrApplied
          => /\ dailyRecords'.steps = dailyRecords.steps
             /\ dailyRecords'.calories = dailyRecords.calories
             /\ dailyRecords'.distance = dailyRecords.distance
             /\ weeklyStats' = weeklyStats
       /\ StepApplied
          => /\ dailyRecords'.avgHr = dailyRecords.avgHr
             /\ heartRate' = heartRate
             /\ hrHistory' = hrHistory]_vars

\* two heart-rate samples and two step readings were accepted, the second
\* reading on top of the first, and the daily record holds both kinds
C37_Witness ==
    /\ variant = WR
    /\ nHr = 2 /\ hrEvt.outcome = "accepted" /\ Len(hrHistory) = 7
    /\ nStep = 2 /\ stepEvt.outcome = "accepted" /\ stepEvt.before = 100
    /\ dailyRecords.avgHr = 70 /\ dailyRecords.steps = 100
    /\ heartRate = 70 /\ weeklyStats.steps = 700

(* --------------------------- device record claims ----------------------- *)
\* C38: the two records of the connected peripheral agree between handlers:
\* deviceRef.current holds a device exactly when connectedDevice does
C38_DeviceRecordsAgree ==
    HasConnectedDevice(variant)
    => ((deviceRef # NoDevice) <=> (connectedDevice # NoDevice))

====
